---- MODULE Spec2Model ----
(***************************************************************************)
(* The receiving side of SFrame (secure-frame-rs, src/receiver.rs):        *)
(* a Receiver owns a key store (HashMap<KeyId, Secret>) and its options    *)
(* (cipher suite, frame validation), and offers decrypt,                   *)
(* set_encryption_key and remove_encryption_key.                           *)
(*                                                                         *)
(* receiver.rs is the only source file at hand.  The header codec, the     *)
(* replay protection, the key expansion and the cipher suite live in other *)
(* files of the crate; they are modelled from the written specification    *)
(* and are marked so in the comments below.                                *)
(*                                                                         *)
(* Bytes are the integers 0..255, buffers are sequences of bytes.          *)
(***************************************************************************)
EXTENDS Integers, Sequences, FiniteSets, TLC

(***************************************************************************)
(* Bounds of the model.                                                    *)
(***************************************************************************)
\* the sender's frame counters are 0..MaxCounter
MaxCounter == 2
\* callers pass skip in 0..MaxSkip for frames that carry a prefix
MaxSkip == 1
\* plaintexts are the prefixes of Payload up to this length
MaxPlainLen == 2

(***************************************************************************)
(* Program constants.                                                      *)
(***************************************************************************)
\* ReplayAttackProtection::with_tolerance(128) of ReceiverOptions::default
DefaultTolerance == 128
\* auth_tag_len of CipherSuiteVariant::AesGcm256Sha512 (an AES-GCM tag)
AuthTagLen == 16

Byte == 256

(***************************************************************************)
(* Result<T>: Ok(value) or Err(error); a panic aborts the call.            *)
(***************************************************************************)
Ok(v) == [kind |-> "Ok", value |-> v]
Err(e) == [kind |-> "Err", error |-> e]
Panic == [kind |-> "Panic"]

\* the SframeError variants decrypt and set_encryption_key can return
MalformedHeader == [type |-> "MalformedHeader", key_id |-> 0]
FrameValidationFailed == [type |-> "FrameValidationFailed", key_id |-> 0]
DecryptionFailure == [type |-> "DecryptionFailure", key_id |-> 0]
KeyExpansion == [type |-> "KeyExpansion", key_id |-> 0]
\* faulty variant: the error loses the key id
MissingDecryptionKeyZero(key_id) == [type |-> "MissingDecryptionKey", key_id |-> 0]
MissingDecryptionKey(key_id) == [type |-> "MissingDecryptionKey", key_id |-> key_id]

(***************************************************************************)
(* Buffers.                                                                *)
(***************************************************************************)
\* buf[from..to) with Rust's 0-based, end-exclusive indices
Slice(buf, from, to) == SubSeq(buf, from + 1, to)

\* n as big-endian bytes, at least one
RECURSIVE ToBytes(_)
ToBytes(n) == IF n < Byte THEN <<n>> ELSE Append(ToBytes(n \div Byte), n % Byte)

RECURSIVE FromBytes(_)
FromBytes(bytes) ==
    IF bytes = <<>> THEN 0
    ELSE FromBytes(SubSeq(bytes, 1, Len(bytes) - 1)) * Byte + bytes[Len(bytes)]

(***************************************************************************)
(* Header codec (specification 4.1, 6; not in receiver.rs).  The first     *)
(* byte is R(1) LEN(3) X(1) K(3): LEN counter bytes follow; with X = 0 the *)
(* key id is K itself, with X = 1 K key id bytes precede the counter.      *)
(* test::fail_on_missing_secret fixes the layout: the frame "foobar is     *)
(* unsafe" starts with 0x66 = 0 110 0 110 and carries key id 6.            *)
(***************************************************************************)
HeaderSerialize(key_id, frame_counter) ==
    LET ctr == ToBytes(frame_counter)
        kid == ToBytes(key_id)
    IN  IF key_id < 8
        THEN <<Len(ctr) * 16 + key_id>> \o ctr
        ELSE <<Len(ctr) * 16 + 8 + Len(kid)>> \o kid \o ctr

\* Header::deserialize: Ok(header) with the header's encoded size, or a
\* parse error when the bytes do not hold a complete header
HeaderDeserialize(bytes) ==
    IF Len(bytes) = 0 THEN Err(MalformedHeader)
    ELSE LET b0 == bytes[1]
             len == (b0 \div 16) % 8
             x == (b0 \div 8) % 2
             k == b0 % 8
             klen == IF x = 1 THEN k ELSE 0
             size == 1 + klen + len
         IN  IF Len(bytes) < size THEN Err(MalformedHeader)
             ELSE Ok([key_id |-> IF x = 1 THEN FromBytes(Slice(bytes, 1, 1 + klen)) ELSE k,
                      frame_counter |-> FromBytes(Slice(bytes, 1 + klen, size)),
                      size |-> size])

(***************************************************************************)
(* Key expansion (specification 4.2; not in receiver.rs): a deterministic  *)
(* derivation of the cipher suite's key and salt from the key material.    *)
(* It can fail on an internal derivation error; the model lets it fail on  *)
(* empty key material.                                                     *)
(***************************************************************************)
RECURSIVE Digest(_, _)
Digest(bytes, seed) ==
    IF bytes = <<>> THEN seed
    ELSE Digest(Tail(bytes), (seed * 31 + Head(bytes)) % Byte)

expand_as_secret(key_material) ==
    IF key_material = <<>> THEN Err(KeyExpansion)
    ELSE Ok([key |-> Digest(key_material, 7), salt |-> Digest(key_material, 11)])

(***************************************************************************)
(* Cipher suite (specification 4.3; not in receiver.rs): an AEAD.  The     *)
(* nonce is derived from the secret's salt and the frame counter, the      *)
(* payload is enciphered with a key stream, and the tag authenticates key, *)
(* nonce, associated data and ciphertext.  The tag is an encoding of them  *)
(* that is injective while they fit into AuthTagLen bytes, which stands    *)
(* for an unforgeable tag.                                                 *)
(***************************************************************************)
Nonce(secret, frame_counter) == (secret.salt + frame_counter) % Byte

KeyStream(secret, nonce, i) == (secret.key * 3 + nonce * 5 + i * 7 + 1) % Byte

Encipher(secret, nonce, plain) ==
    [i \in 1..Len(plain) |-> (plain[i] + KeyStream(secret, nonce, i)) % Byte]

Decipher(secret, nonce, cipher) ==
    [i \in 1..Len(cipher) |-> (cipher[i] + Byte - KeyStream(secret, nonce, i)) % Byte]

\* msg cut or filled with zeros to the length of a tag
TagOf(msg) == [i \in 1..AuthTagLen |-> IF i <= Len(msg) THEN msg[i] ELSE 0]

AuthTag(secret, nonce, associated_data, cipher) ==
    TagOf(<<secret.key, nonce, Len(associated_data), Len(cipher)>>
              \o associated_data \o cipher)

\* CipherSuite::encrypt, the dual of decrypt: ciphertext followed by the tag
Seal(secret, nonce, associated_data, cipher) ==
    cipher \o AuthTag(secret, nonce, associated_data, cipher)

cipher_encrypt(plain, secret, associated_data, frame_counter) ==
    Seal(secret, Nonce(secret, frame_counter), associated_data,
         Encipher(secret, Nonce(secret, frame_counter), plain))

\* CipherSuite::decrypt(io_buffer, secret, aad, frame_counter): Ok with the
\* buffer holding the plaintext in front of the tag, or an authentication error
Open(secret, nonce, associated_data, cipher, tag) ==
    IF tag # AuthTag(secret, nonce, associated_data, cipher)
    THEN Err(DecryptionFailure)
    ELSE Ok(Decipher(secret, nonce, cipher) \o tag)

cipher_decrypt(io_buffer, secret, associated_data, frame_counter) ==
    IF Len(io_buffer) < AuthTagLen THEN Err(DecryptionFailure)
    ELSE Open(secret, Nonce(secret, frame_counter), associated_data,
              Slice(io_buffer, 0, Len(io_buffer) - AuthTagLen),
              Slice(io_buffer, Len(io_buffer) - AuthTagLen, Len(io_buffer)))

(***************************************************************************)
(* Replay protection (specification 4.4; not in receiver.rs): the highest  *)
(* counter accepted so far and the counters accepted within the window     *)
(* [max - tolerance, max].                                                 *)
(***************************************************************************)
ReplayAttackProtection_with_tolerance(tolerance) ==
    [tolerance |-> tolerance, max |-> 0, seen |-> {}]

\* FrameValidation::validate: Ok(state after) or the replay error
validate(validation, header) ==
    LET c == header.frame_counter
        accept(max) ==
            Ok([validation EXCEPT
                   !.max = max,
                   !.seen = {s \in validation.seen \cup {c} :
                                max - s <= validation.tolerance}])
    IN  IF c > validation.max THEN accept(c)
        ELSE IF validation.max - c <= validation.tolerance /\ c \notin validation.seen
             THEN accept(validation.max)
             ELSE Err(FrameValidationFailed)

(***************************************************************************)
(* Sender side (not in receiver.rs), the dual of Receiver::decrypt: the    *)
(* frame is [skip prefix][header][ciphertext][tag], the header being the   *)
(* associated data and its frame counter the nonce input.                  *)
(***************************************************************************)
EncryptWithHeader(secret, header, frame_counter, plain, prefix) ==
    prefix \o header \o cipher_encrypt(plain, secret, header, frame_counter)

encrypt(secret, key_id, frame_counter, plain, prefix) ==
    EncryptWithHeader(secret, HeaderSerialize(key_id, frame_counter), frame_counter,
                      plain, prefix)

(***************************************************************************)
(* The Receiver.                                                           *)
(***************************************************************************)
VARIABLES
    secrets,      \* Receiver::secrets: the key ids that hold a Secret, and it
    validation,   \* the state of options.frame_validation
    last,         \* the last call: its operation, arguments and result
    accepted,     \* history: the frame counters validation has accepted
    last_set,     \* history: the ids whose latest successful set was not followed
                  \* by a remove
    scenario,     \* history: how far the last calls follow the key removal scenario
    last_key,     \* history: for each id of last_set, the key material of its
                  \* latest successful set
    rotation      \* history: how far the last calls follow the key rotation scenario

vars == <<secrets, validation, last, accepted, last_set, scenario, last_key, rotation>>

\* HashMap::get
SecretsGet(map, key_id) ==
    IF key_id \in DOMAIN map THEN [some |-> TRUE, secret |-> map[key_id]]
    ELSE [some |-> FALSE, secret |-> [key |-> 0, salt |-> 0]]

\* faulty variant: an entry that exists is kept (entry().or_insert())
SecretsInsertKeepOld(map, key_id, secret) ==
    [k \in DOMAIN map \cup {key_id} |-> IF k \in DOMAIN map THEN map[k] ELSE secret]
\* HashMap::insert
SecretsInsert(map, key_id, secret) ==
    [k \in DOMAIN map \cup {key_id} |-> IF k = key_id THEN secret ELSE map[k]]

\* faulty variant: the map is cleared
SecretsRemoveAll(map, key_id) == [k \in {} |-> map[k]]
\* HashMap::remove: the map without the key
SecretsRemove(map, key_id) == [k \in DOMAIN map \ {key_id} |-> map[k]]

\* KeyId::from(u64)
KeyIdFrom(receiver_id) == receiver_id

\* faulty variant: the skip is left out of the index
PayloadBeginIdxNoSkip(skip, header) == header.size
\* let payload_begin_idx = skip + header.size();
PayloadBeginIdx(skip, header) == skip + header.size

\* encrypted_frame[..skip].iter().chain(encrypted_frame[payload_begin_idx..].iter())
IoBuffer(encrypted_frame, skip, payload_begin_idx) ==
    Slice(encrypted_frame, 0, skip)
        \o Slice(encrypted_frame, payload_begin_idx, Len(encrypted_frame))

\* faulty variant: the tag is left on the buffer
TruncateNothing(io_buffer) == io_buffer
\* io_buffer.truncate(io_buffer.len() - auth_tag_len); the cipher suite has
\* refused every buffer shorter than the tag before this is reached
Truncate(io_buffer) == Slice(io_buffer, 0, Len(io_buffer) - AuthTagLen)

\* faulty variant: no associated data are passed
CipherSuiteDecryptNoAad(encrypted_frame, skip, header, secret, io_buffer) ==
    cipher_decrypt(Slice(io_buffer, skip, Len(io_buffer)),
                   secret,
                   <<>>,
                   header.frame_counter)
\* faulty variant: the nonce input is not the header's frame counter
CipherSuiteDecryptZeroCounter(encrypted_frame, skip, header, secret, io_buffer) ==
    cipher_decrypt(Slice(io_buffer, skip, Len(io_buffer)),
                   secret,
                   Slice(encrypted_frame, skip, PayloadBeginIdx(skip, header)),
                   0)
\* self.options.cipher_suite.decrypt(&mut io_buffer[skip..], secret,
\*     &encrypted_frame[skip..payload_begin_idx], &header.get_frame_counter())
CipherSuiteDecrypt(encrypted_frame, skip, header, secret, io_buffer) ==
    cipher_decrypt(Slice(io_buffer, skip, Len(io_buffer)),
                   secret,
                   Slice(encrypted_frame, skip, PayloadBeginIdx(skip, header)),
                   header.frame_counter)

\* faulty variant: the cipher suite's error is dropped
DecryptedBufferUnchecked(io_buffer, skip, opened) ==
    IF opened.kind = "Err" THEN Ok(Truncate(io_buffer))
    ELSE Ok(Truncate(Slice(io_buffer, 0, skip) \o opened.value))
\* faulty variant: the skip prefix is not returned
DecryptedBufferDropPrefix(io_buffer, skip, opened) ==
    IF opened.kind = "Err" THEN opened
    ELSE Ok(Truncate(opened.value))
\* the end of decrypt: `?` on the cipher suite's result, then the buffer,
\* its bytes from skip on replaced by what the cipher suite left, truncated
DecryptedBuffer(io_buffer, skip, opened) ==
    IF opened.kind = "Err" THEN opened
    ELSE Ok(Truncate(Slice(io_buffer, 0, skip) \o opened.value))

\* the branch of decrypt that holds the secret, from the spliced io_buffer on
DecryptSpliced(encrypted_frame, skip, header, secret, io_buffer) ==
    DecryptedBuffer(io_buffer, skip,
                    CipherSuiteDecrypt(encrypted_frame, skip, header, secret, io_buffer))

\* the branch of decrypt that holds the secret
DecryptPayload(encrypted_frame, skip, header, secret) ==
    DecryptSpliced(encrypted_frame, skip, header, secret,
                   IoBuffer(encrypted_frame, skip, PayloadBeginIdx(skip, header)))

\* faulty variant: the payload is measured against the tag ahead of the lookup
DecryptFoundCipherFirst(encrypted_frame, skip, header, found) ==
    IF Len(encrypted_frame) - PayloadBeginIdx(skip, header) < AuthTagLen
    THEN Err(DecryptionFailure)
    ELSE IF found.some
    THEN DecryptPayload(encrypted_frame, skip, header, found.secret)
    ELSE Err(MissingDecryptionKey(header.key_id))
\* if let Some(secret) = self.secrets.get(&key_id) { .. } else { Err(..) }
DecryptFound(encrypted_frame, skip, header, found) ==
    IF found.some
    THEN DecryptPayload(encrypted_frame, skip, header, found.secret)
    ELSE Err(MissingDecryptionKey(header.key_id))

\* decrypt from the key lookup on
DecryptWithKey(map, encrypted_frame, skip, header) ==
    DecryptFound(encrypted_frame, skip, header, SecretsGet(map, header.key_id))

\* faulty variant: a rejected counter is recorded as seen
DecryptValidatedSeenOnReject(map, val, encrypted_frame, skip, header, valid) ==
    IF valid.kind = "Err"
    THEN [result |-> valid,
          validation |-> [val EXCEPT !.seen = @ \cup {header.frame_counter}],
          secrets |-> map]
    ELSE [result |-> DecryptWithKey(map, encrypted_frame, skip, header),
          validation |-> valid.value, secrets |-> map]
\* faulty variant: the state validation has moved to is kept on success only
DecryptValidatedKeptOnSuccess(map, val, encrypted_frame, skip, header, valid) ==
    IF valid.kind = "Err" THEN [result |-> valid, validation |-> val, secrets |-> map]
    ELSE LET result == DecryptWithKey(map, encrypted_frame, skip, header)
         IN  [result |-> result,
              validation |-> IF result.kind = "Ok" THEN valid.value ELSE val,
              secrets |-> map]
\* faulty variant: the state validation has moved to is not kept
DecryptValidatedStateLost(map, val, encrypted_frame, skip, header, valid) ==
    IF valid.kind = "Err" THEN [result |-> valid, validation |-> val, secrets |-> map]
    ELSE [result |-> DecryptWithKey(map, encrypted_frame, skip, header),
          validation |-> val, secrets |-> map]
\* faulty variant: the lookup takes the Secret out of the store (remove for get)
DecryptValidatedTakesKey(map, val, encrypted_frame, skip, header, valid) ==
    IF valid.kind = "Err" THEN [result |-> valid, validation |-> val, secrets |-> map]
    ELSE [result |-> DecryptWithKey(map, encrypted_frame, skip, header),
          validation |-> valid.value, secrets |-> SecretsRemove(map, header.key_id)]
\* decrypt after validation: `?` on its result, then the key lookup
DecryptValidated(map, val, encrypted_frame, skip, header, valid) ==
    IF valid.kind = "Err" THEN [result |-> valid, validation |-> val, secrets |-> map]
    ELSE [result |-> DecryptWithKey(map, encrypted_frame, skip, header),
          validation |-> valid.value, secrets |-> map]

\* faulty variant: validation is left out
DecryptParsedNoValidation(map, val, encrypted_frame, skip, parsed) ==
    IF parsed.kind = "Err" THEN [result |-> parsed, validation |-> val, secrets |-> map]
    ELSE [result |-> DecryptWithKey(map, encrypted_frame, skip, parsed.value),
          validation |-> val, secrets |-> map]
\* faulty variant: frames whose key id takes the short form are not validated
DecryptParsedShortUnvalidated(map, val, encrypted_frame, skip, parsed) ==
    IF parsed.kind = "Err" THEN [result |-> parsed, validation |-> val, secrets |-> map]
    ELSE IF parsed.value.key_id < 8
    THEN [result |-> DecryptWithKey(map, encrypted_frame, skip, parsed.value),
          validation |-> val, secrets |-> map]
    ELSE DecryptValidated(map, val, encrypted_frame, skip, parsed.value,
                          validate(val, parsed.value))
\* faulty variant: the key is looked up before validation
DecryptParsedLookupFirst(map, val, encrypted_frame, skip, parsed) ==
    IF parsed.kind = "Err" THEN [result |-> parsed, validation |-> val, secrets |-> map]
    ELSE IF ~SecretsGet(map, parsed.value.key_id).some
    THEN [result |-> Err(MissingDecryptionKey(parsed.value.key_id)), validation |-> val,
          secrets |-> map]
    ELSE DecryptValidated(map, val, encrypted_frame, skip, parsed.value,
                          validate(val, parsed.value))
\* decrypt after parsing: `?` on its result, then validation
DecryptParsed(map, val, encrypted_frame, skip, parsed) ==
    IF parsed.kind = "Err" THEN [result |-> parsed, validation |-> val, secrets |-> map]
    ELSE DecryptValidated(map, val, encrypted_frame, skip, parsed.value,
                          validate(val, parsed.value))

\* Receiver::decrypt: the result, and the state it leaves validation and the
\* key store in
decrypt(map, val, encrypted_frame, skip) ==
    \* &encrypted_frame[skip..] panics when skip is beyond the end of the frame
    IF skip > Len(encrypted_frame)
    THEN [result |-> Panic, validation |-> val, secrets |-> map]
    ELSE DecryptParsed(map, val, encrypted_frame, skip,
                       HeaderDeserialize(Slice(encrypted_frame, skip, Len(encrypted_frame))))

\* faulty variant: the entry of the id is taken out ahead of the expansion
InsertExpandedDropsFirst(map, receiver_id, expanded) ==
    IF expanded.kind = "Err"
    THEN [result |-> expanded, secrets |-> SecretsRemove(map, KeyIdFrom(receiver_id))]
    ELSE [result |-> Ok(<<>>),
          secrets |-> SecretsInsert(map, KeyIdFrom(receiver_id), expanded.value)]
\* Receiver::set_encryption_key: the result and the key store after
InsertExpanded(map, receiver_id, expanded) ==
    IF expanded.kind = "Err" THEN [result |-> expanded, secrets |-> map]
    ELSE [result |-> Ok(<<>>),
          secrets |-> SecretsInsert(map, KeyIdFrom(receiver_id), expanded.value)]

set_encryption_key(map, receiver_id, key_material) ==
    InsertExpanded(map, receiver_id, expand_as_secret(key_material))

\* faulty variant: is_none() for is_some()
remove_encryption_key_is_none(map, receiver_id) ==
    [result |-> KeyIdFrom(receiver_id) \notin DOMAIN map,
     secrets |-> SecretsRemove(map, KeyIdFrom(receiver_id))]
\* Receiver::remove_encryption_key: the result and the key store after
remove_encryption_key(map, receiver_id) ==
    [result |-> KeyIdFrom(receiver_id) \in DOMAIN map,
     secrets |-> SecretsRemove(map, KeyIdFrom(receiver_id))]

(***************************************************************************)
(* The calls the environment makes.                                        *)
(***************************************************************************)
\* the key ids of the tests: 4223 takes the extended form of the header
KeyIdExtended == 4223
KeyIdShort == 6
KeyIds == {KeyIdShort, KeyIdExtended}

\* key materials: the first bytes of the two passwords of test::remove_key
KeyMaterialA == <<104, 101>>
KeyMaterialB == <<116, 111>>
KeyMaterials == {KeyMaterialA, KeyMaterialB}
\* key material whose expansion fails
KeyMaterialBad == <<>>

Counters == 0..MaxCounter

Plaintext(n) == [i \in 1..n |-> (i * 37 + 67) % Byte]
Plaintexts == {Plaintext(n) : n \in 0..MaxPlainLen}

\* the pass-through bytes in front of the header
Prefix(n) == [i \in 1..n |-> ((i - 1) * 83) % Byte]

SecretOf(key_material) == expand_as_secret(key_material).value

\* what a sender holding key_material under key_id produces
SentFrame(key_material, key_id, frame_counter, plain, skip) ==
    encrypt(SecretOf(key_material), key_id, frame_counter, plain, Prefix(skip))

\* the frames of the senders: every key, key id and counter with one
\* plaintext and no prefix, and every plaintext and prefix with one key
HonestInputs ==
    {[frame |-> SentFrame(km, kid, c, Plaintext(MaxPlainLen), 0), skip |-> 0] :
        km \in KeyMaterials, kid \in KeyIds, c \in Counters}
    \cup
    {[frame |-> SentFrame(KeyMaterialA, kid, 0, pt, s), skip |-> s] :
        kid \in KeyIds, pt \in Plaintexts, s \in 0..MaxSkip}

\* frame with the byte at 0-based index i changed
Tamper(frame, i) == [frame EXCEPT ![i + 1] = (@ + 1) % Byte]

\* sent frames with one byte of the ciphertext or tag region changed
TamperedInputs ==
    LET frame == SentFrame(KeyMaterialA, KeyIdExtended, 0, Plaintext(MaxPlainLen), MaxSkip)
        begin == MaxSkip + Len(HeaderSerialize(KeyIdExtended, 0))
    IN  {[frame |-> Tamper(frame, i), skip |-> MaxSkip] : i \in begin..(Len(frame) - 1)}

\* sent frames whose header was replaced by the header of another frame
ReheaderedInputs ==
    {[frame |-> HeaderSerialize(to[1], to[2])
                    \o cipher_encrypt(Plaintext(MaxPlainLen), SecretOf(KeyMaterialA),
                                      HeaderSerialize(kid, 0), 0),
      skip |-> 0] :
        kid \in KeyIds, to \in (KeyIds \X {0, 1})} \ HonestInputs

\* frames no sender produced: nothing at all, a header cut short, a payload
\* shorter than the tag, and calls whose skip does not fit the frame
OddInputs ==
    {[frame |-> <<>>, skip |-> 0],
     [frame |-> <<>>, skip |-> 1],
     [frame |-> <<2 * 16 + KeyIdShort>>, skip |-> 0],
     [frame |-> SubSeq(HeaderSerialize(KeyIdExtended, 0), 1, 3), skip |-> 0],
     [frame |-> Prefix(1) \o HeaderSerialize(KeyIdShort, 1), skip |-> 1],
     [frame |-> HeaderSerialize(KeyIdShort, 1) \o <<1, 2, 3>>, skip |-> 0],
     [frame |-> SentFrame(KeyMaterialA, KeyIdShort, 0, Plaintext(1), 1), skip |-> 0],
     [frame |-> SentFrame(KeyMaterialA, KeyIdShort, 0, Plaintext(1), 0),
      skip |-> Len(SentFrame(KeyMaterialA, KeyIdShort, 0, Plaintext(1), 0)) + 1]}

Inputs == HonestInputs \cup TamperedInputs \cup ReheaderedInputs \cup OddInputs

(***************************************************************************)
(* History kept for the properties.                                        *)
(***************************************************************************)
\* the header decrypt parses, if it gets that far
ParsedHeader(encrypted_frame, skip) ==
    IF skip > Len(encrypted_frame) THEN Err(MalformedHeader)
    ELSE HeaderDeserialize(Slice(encrypted_frame, skip, Len(encrypted_frame)))

\* whether validation, in state val, accepts the header of the frame
ValidatesParsed(val, parsed) ==
    /\ parsed.kind = "Ok"
    /\ validate(val, parsed.value).kind = "Ok"

Validates(val, encrypted_frame, skip) ==
    ValidatesParsed(val, ParsedHeader(encrypted_frame, skip))

\* the scenario of the specification's section 8: set the key, decrypt the
\* frame with counter 0, remove the key twice, decrypt the frame again
ScenarioFrame == SentFrame(KeyMaterialA, KeyIdExtended, 0, Plaintext(MaxPlainLen), 0)

ScenarioNext(call) ==
    CASE scenario = 1 /\ call.op = "decrypt" /\ call.frame = ScenarioFrame
             /\ call.skip = 0 /\ call.result.kind = "Ok" -> 2
      [] scenario = 2 /\ call.op = "remove_encryption_key"
             /\ call.receiver_id = KeyIdExtended /\ call.result -> 3
      [] scenario = 3 /\ call.op = "remove_encryption_key"
             /\ call.receiver_id = KeyIdExtended /\ ~call.result -> 4
      [] scenario = 4 /\ call.op = "decrypt" /\ call.frame = ScenarioFrame
             /\ call.skip = 0 -> 5
      [] OTHER -> IF /\ call.op = "set_encryption_key"
                     /\ call.receiver_id = KeyIdExtended
                     /\ call.key_material = KeyMaterialA
                  THEN 1 ELSE 0

\* key rotation: set the short key id to one key, set it to another, then
\* decrypt a frame for that key id that validation accepts
RotationNext(call) ==
    CASE rotation = 1 /\ call.op = "set_encryption_key"
             /\ call.receiver_id = KeyIdShort /\ call.key_material = KeyMaterialB
             /\ call.result.kind = "Ok" -> 2
      [] rotation = 2 /\ call.op = "decrypt" /\ call.validated
             /\ ParsedHeader(call.frame, call.skip).value.key_id = KeyIdShort -> 3
      [] OTHER -> IF /\ call.op = "set_encryption_key"
                     /\ call.receiver_id = KeyIdShort
                     /\ call.key_material = KeyMaterialA
                     /\ call.result.kind = "Ok"
                  THEN 1 ELSE 0

\* a call: its arguments, its result and, for decrypt, whether validation
\* accepted the header
NoCall == [op |-> "new", receiver_id |-> 0, key_material |-> <<>>,
           frame |-> <<>>, skip |-> 0, validated |-> FALSE, result |-> Ok(<<>>)]

(***************************************************************************)
(* Receiver::default(); its options carry the default tolerance, or the    *)
(* smallest one that leaves a window.                                      *)
(***************************************************************************)
Tolerances == {1, DefaultTolerance}

Init ==
    /\ secrets = [k \in {} |-> 0]
    /\ \E t \in Tolerances : validation = ReplayAttackProtection_with_tolerance(t)
    /\ last = NoCall
    /\ accepted = {}
    /\ last_set = {}
    /\ scenario = 0
    /\ last_key = [k \in {} |-> <<>>]
    /\ rotation = 0

\* the record of a decrypt call
DecryptCall(encrypted_frame, skip, result, validated) ==
    [NoCall EXCEPT !.op = "decrypt", !.frame = encrypted_frame, !.skip = skip,
                   !.result = result, !.validated = validated]

Decrypt(encrypted_frame, skip) ==
    \E r \in {decrypt(secrets, validation, encrypted_frame, skip)} :
        /\ validation' = r.validation
        /\ secrets' = r.secrets
        /\ last' = DecryptCall(encrypted_frame, skip, r.result,
                               Validates(validation, encrypted_frame, skip))
        /\ accepted' = IF last'.validated
                       THEN accepted \cup
                                {ParsedHeader(encrypted_frame, skip).value.frame_counter}
                       ELSE accepted
        /\ scenario' = ScenarioNext(last')
        /\ rotation' = RotationNext(last')
        /\ UNCHANGED <<last_set, last_key>>

SetEncryptionKey(receiver_id, key_material) ==
    \E r \in {set_encryption_key(secrets, receiver_id, key_material)} :
        /\ secrets' = r.secrets
        /\ last' = [NoCall EXCEPT !.op = "set_encryption_key",
                                  !.receiver_id = receiver_id,
                                  !.key_material = key_material, !.result = r.result]
        /\ last_set' = IF r.result.kind = "Ok" THEN last_set \cup {receiver_id}
                       ELSE last_set
        /\ last_key' = IF r.result.kind = "Ok"
                       THEN [k \in DOMAIN last_key \cup {receiver_id} |->
                                IF k = receiver_id THEN key_material ELSE last_key[k]]
                       ELSE last_key
        /\ scenario' = ScenarioNext(last')
        /\ rotation' = RotationNext(last')
        /\ UNCHANGED <<validation, accepted>>

RemoveEncryptionKey(receiver_id) ==
    \E r \in {remove_encryption_key(secrets, receiver_id)} :
        /\ secrets' = r.secrets
        /\ last' = [NoCall EXCEPT !.op = "remove_encryption_key",
                                  !.receiver_id = receiver_id, !.result = r.result]
        /\ last_set' = last_set \ {receiver_id}
        /\ last_key' = [k \in DOMAIN last_key \ {receiver_id} |-> last_key[k]]
        /\ scenario' = ScenarioNext(last')
        /\ rotation' = RotationNext(last')
        /\ UNCHANGED <<validation, accepted>>

Next ==
    \/ \E input \in Inputs : Decrypt(input.frame, input.skip)
    \/ \E id \in KeyIds, km \in KeyMaterials \cup {KeyMaterialBad} :
           SetEncryptionKey(id, km)
    \/ \E id \in KeyIds : RemoveEncryptionKey(id)

Spec == Init /\ [][Next]_vars

(***************************************************************************)
(* Properties.                                                             *)
(***************************************************************************)
\* every frame a sender can produce, with what it was made from
SentTable ==
    {[frame |-> SentFrame(km, kid, c, pt, s), skip |-> s, key_material |-> km,
      key_id |-> kid, frame_counter |-> c, plain |-> pt] :
        km \in KeyMaterials, kid \in KeyIds, c \in Counters,
        pt \in Plaintexts, s \in 0..MaxSkip}

\* the last call was decrypt and its frame held a complete header
DecryptedParsed ==
    /\ last.op = "decrypt"
    /\ ParsedHeader(last.frame, last.skip).kind = "Ok"

LastHeader == ParsedHeader(last.frame, last.skip).value

\* the store holds, under the key id, the secret expanded from the key material
Holds(key_id, key_material) ==
    /\ key_id \in DOMAIN secrets
    /\ secrets[key_id] = SecretOf(key_material)

\* C1 as claimed: decrypt of a well-formed frame whose key id is not in the
\* key store fails with the missing-key error carrying that key id.
C1_MissingKeyAlways ==
    (DecryptedParsed /\ LastHeader.key_id \notin DOMAIN secrets)
        => /\ last.result.kind = "Err"
           /\ last.result.error.type = "MissingDecryptionKey"
           /\ last.result.error.key_id = LastHeader.key_id

\* C1 amended: decrypt of a well-formed frame whose header passes validation
\* and whose key id is not in the key store fails with the missing-key error
\* carrying the key id parsed from the header.
C1_MissingKey ==
    (DecryptedParsed /\ last.validated /\ LastHeader.key_id \notin DOMAIN secrets)
        => /\ last.result.kind = "Err"
           /\ last.result.error.type = "MissingDecryptionKey"
           /\ last.result.error.key_id = LastHeader.key_id

\* a validated frame for the extended key id met an empty slot in the store
C1_Witness ==
    /\ DecryptedParsed
    /\ last.validated
    /\ LastHeader.key_id = KeyIdExtended
    /\ KeyIdExtended \notin DOMAIN secrets
    /\ KeyIdShort \in DOMAIN secrets
    /\ last.result.kind = "Err"

\* C2: remove_encryption_key(id) returns true exactly when the latest call
\* that took effect on id in the key store was a successful
\* set_encryption_key (false for an id never set or already removed), and
\* it leaves id absent from the store.
C2_RemoveReportsLastSet ==
    [][last'.op = "remove_encryption_key"
          => /\ last'.result = (last'.receiver_id \in last_set)
             /\ last'.receiver_id \notin DOMAIN secrets'
             /\ last'.receiver_id \notin last_set']_vars

\* the key was set, removed with true, and removed again with false
C2_Witness == scenario = 4 /\ last.result = FALSE

\* the scenario ran to its end on a Receiver with the default options
ScenarioDone == scenario = 5 /\ validation.tolerance = DefaultTolerance

\* C3 as claimed: after the key was set, the frame with counter 0 decrypted,
\* and the key removed (true, then false), decrypting the same frame again
\* fails with the missing-key error for that key id.
C3_ScenarioMissingKey ==
    ScenarioDone => last.result = Err(MissingDecryptionKey(KeyIdExtended))

\* C3 amended: in that scenario the second decrypt of the same frame fails
\* with the replay error, the counter 0 having been accepted by the first
\* decrypt and validation running before the key lookup.
C3_ScenarioReplay ==
    ScenarioDone => last.result = Err(FrameValidationFailed)

\* the whole scenario has happened and left the key id out of the store
C3_Witness ==
    /\ ScenarioDone
    /\ KeyIdExtended \notin DOMAIN secrets
    /\ 0 \in accepted
    /\ last.op = "decrypt" /\ last.frame = ScenarioFrame

\* C4: decrypt never aborts: whatever the bytes and the skip, it returns a
\* plaintext buffer or one of the errors malformed input, replay rejected,
\* missing key, authentication failure.
C4_NeverAborts ==
    last.op = "decrypt"
        => \/ last.result.kind = "Ok"
           \/ /\ last.result.kind = "Err"
              /\ last.result.error.type \in
                     {"MalformedHeader", "FrameValidationFailed",
                      "MissingDecryptionKey", "DecryptionFailure"}

\* C5: with tolerance T and highest accepted counter max, decrypt of a frame
\* with counter c is rejected with the replay error when c was accepted
\* before and when max - c > T, and is not rejected by validation when
\* max - c <= T and c was not accepted before.
C5_ReplayWindow ==
    [][\A parsed \in {ParsedHeader(last'.frame, last'.skip)} :
          (last'.op = "decrypt" /\ parsed.kind = "Ok")
              => \A c \in {parsed.value.frame_counter},
                    rejected \in {last'.result = Err(FrameValidationFailed)} :
                     /\ c \in accepted => rejected
                     /\ validation.max - c > validation.tolerance => rejected
                     /\ (c \notin accepted
                            /\ validation.max - c <= validation.tolerance)
                                => ~rejected]_vars

\* the counters 0..max were all accepted, and the frame with counter 0, by
\* then below the window, was rejected
C5_Witness ==
    /\ validation.max = MaxCounter
    /\ accepted = 0..MaxCounter
    /\ validation.max - 0 > validation.tolerance
    /\ DecryptedParsed
    /\ LastHeader.frame_counter = 0
    /\ last.result = Err(FrameValidationFailed)

\* the entries of SentTable the last decrypt was called with
LastSent == {e \in SentTable : e.frame = last.frame /\ e.skip = last.skip}

\* C6: a frame encrypted under a key, whose counter validation accepts,
\* decrypted with the same skip by a Receiver holding that key under the
\* header's key id, yields the skip prefix followed by the original plaintext.
C6_RoundTrip ==
    last.op = "decrypt"
        => \A e \in LastSent :
               (last.validated /\ Holds(e.key_id, e.key_material))
                   => last.result = Ok(Prefix(e.skip) \o e.plain)

\* a frame with a prefix, the extended key id and a counter above 0 came
\* back as its plaintext
C6_Witness ==
    /\ last.op = "decrypt"
    /\ last.result.kind = "Ok"
    /\ \E e \in LastSent :
           /\ e.key_id = KeyIdExtended
           /\ e.frame_counter > 0
           /\ e.plain = Plaintext(MaxPlainLen)
           /\ e.key_material = KeyMaterialB
           /\ last.result.value = e.plain

\* C7: a frame that would decrypt, with a byte of its ciphertext or tag
\* changed, fails with the authentication error; and whenever decrypt
\* returns a plaintext, it is the one some sender encrypted into that very
\* frame under the key the Receiver holds.
C7_TamperDetected ==
    /\ (/\ last.op = "decrypt"
        /\ [frame |-> last.frame, skip |-> last.skip] \in TamperedInputs
        /\ last.validated
        /\ Holds(KeyIdExtended, KeyMaterialA))
           => last.result = Err(DecryptionFailure)
    /\ (last.op = "decrypt" /\ last.result.kind = "Ok")
           => \E e \in LastSent :
                  /\ Holds(e.key_id, e.key_material)
                  /\ last.result.value = Prefix(e.skip) \o e.plain

\* a tampered frame met the key it was encrypted under and was refused
C7_Witness ==
    /\ last.op = "decrypt"
    /\ [frame |-> last.frame, skip |-> last.skip] \in TamperedInputs
    /\ last.validated
    /\ Holds(KeyIdExtended, KeyMaterialA)
    /\ last.result = Err(DecryptionFailure)

\* C8: when decrypt succeeds, the length of the returned buffer is the
\* length of the frame minus the header's encoded size minus the
\* authentication-tag length.
C8_OutputLength ==
    (last.op = "decrypt" /\ last.result.kind = "Ok")
        => Len(last.result.value) = Len(last.frame) - LastHeader.size - AuthTagLen

\* decrypt succeeded on a frame with a prefix and the long header
C8_Witness ==
    /\ last.op = "decrypt"
    /\ last.result.kind = "Ok"
    /\ last.skip = MaxSkip
    /\ LastHeader.size = 4
    /\ Len(last.result.value) = MaxSkip + MaxPlainLen

\* C9: when decrypt(frame, skip) succeeds, the output starts with the first
\* skip bytes of the frame and continues with the plaintext of the bytes
\* between header and tag, and with nothing else: no header byte is in it.
C9_PrefixThenPayload ==
    (last.op = "decrypt" /\ last.result.kind = "Ok")
        => LET out == last.result.value
               begin == last.skip + LastHeader.size
               secret == secrets[LastHeader.key_id]
           IN  /\ Len(out) >= last.skip
               /\ Slice(out, 0, last.skip) = Slice(last.frame, 0, last.skip)
               /\ Slice(out, last.skip, Len(out)) =
                      Decipher(secret, Nonce(secret, LastHeader.frame_counter),
                               Slice(last.frame, begin, Len(last.frame) - AuthTagLen))

\* decrypt succeeded with a prefix in front of a payload
C9_Witness ==
    /\ last.op = "decrypt"
    /\ last.result.kind = "Ok"
    /\ last.skip = MaxSkip
    /\ MaxSkip > 0
    /\ Len(last.result.value) > MaxSkip

\* what a sender makes of one plaintext under each key material, key id and
\* counter, with a prefix of each length
SentWithPrefix ==
    [km \in KeyMaterials, kid \in KeyIds, c \in Counters, s \in 0..MaxSkip |->
        SentFrame(km, kid, c, Plaintext(MaxPlainLen), s)]

\* the outcome of decrypt, in the present state, on such a frame
Outcome(key_material, key_id, frame_counter, skip) ==
    decrypt(secrets, validation,
            SentWithPrefix[key_material, key_id, frame_counter, skip], skip)

\* C10: for one key, header and plaintext and one state of the Receiver,
\* decrypt with different skips (the frame carrying a prefix of that length)
\* ends the same way, leaves validation in the same state and, on success,
\* returns the same bytes behind the prefix.
C10_SkipInvariance ==
    \A km \in KeyMaterials, kid \in KeyIds, c \in Counters, s \in 1..MaxSkip :
        LET r0 == Outcome(km, kid, c, 0)
            rs == Outcome(km, kid, c, s)
        IN  /\ rs.result.kind = r0.result.kind
            /\ rs.validation = r0.validation
            /\ r0.result.kind = "Err" => rs.result = r0.result
            /\ r0.result.kind = "Ok"
                   => Slice(rs.result.value, s, Len(rs.result.value)) = r0.result.value

\* a state in which the frame decrypts with and without a prefix, reached
\* by a decrypt that passed a prefix through
C10_Witness ==
    /\ last.op = "decrypt" /\ last.skip > 0 /\ last.result.kind = "Ok"
    /\ Outcome(KeyMaterialA, KeyIdExtended, MaxCounter, 0).result.kind = "Ok"
    /\ Outcome(KeyMaterialA, KeyIdExtended, MaxCounter, MaxSkip).result.kind = "Ok"

\* C11: set_encryption_key is last-write-wins: the store holds, for each id,
\* exactly the Secret derived from the key material of the latest successful
\* set of that id; a frame for the id that validation accepts decrypts to
\* its plaintext when it was encrypted under that key material, and fails
\* with the authentication error when it was encrypted under another.
C11_LastWriteWins ==
    /\ DOMAIN secrets = DOMAIN last_key
    /\ \A id \in DOMAIN last_key : secrets[id] = SecretOf(last_key[id])
    /\ (last.op = "decrypt" /\ last.validated)
           => \A e \in LastSent :
                  e.key_id \in DOMAIN last_key
                      => last.result = IF e.key_material = last_key[e.key_id]
                                       THEN Ok(Prefix(e.skip) \o e.plain)
                                       ELSE Err(DecryptionFailure)

\* the short key id was set to one key, then to another, and a frame
\* encrypted under the first key was then refused
C11_Witness ==
    /\ rotation = 3
    /\ Holds(KeyIdShort, KeyMaterialB)
    /\ last.frame = SentFrame(KeyMaterialA, KeyIdShort, 0, Plaintext(MaxPlainLen), 0)
    /\ last.result = Err(DecryptionFailure)

\* C12: when set_encryption_key fails with the key expansion error, the key
\* store after the call is the key store before it: every Secret, the one
\* under the id of the call included, is still there and unchanged.
C12_FailedSetKeepsStore ==
    [][(last'.op = "set_encryption_key" /\ last'.result.kind = "Err")
          => /\ last'.result.error.type = "KeyExpansion"
             /\ DOMAIN secrets' = DOMAIN secrets
             /\ \A id \in DOMAIN secrets : secrets'[id] = secrets[id]]_vars

\* a set failed on an id that holds a Secret, next to another id that holds one
C12_Witness ==
    /\ last.op = "set_encryption_key"
    /\ last.result = Err(KeyExpansion)
    /\ last.receiver_id = KeyIdShort
    /\ Holds(KeyIdShort, KeyMaterialB)
    /\ Holds(KeyIdExtended, KeyMaterialA)

\* C13: decrypt, whatever its outcome, leaves the key store as it was; of
\* the Receiver's two fields, secrets and options, only the state of the
\* options' frame validation can differ after the call.
C13_DecryptKeepsStore ==
    [][last'.op = "decrypt"
          => /\ DOMAIN secrets' = DOMAIN secrets
             /\ \A id \in DOMAIN secrets : secrets'[id] = secrets[id]]_vars

\* a decrypt succeeded with both key ids in the store and moved the window
C13_Witness ==
    /\ last.op = "decrypt"
    /\ last.result.kind = "Ok"
    /\ DOMAIN secrets = KeyIds
    /\ validation.max = MaxCounter
    /\ LastHeader.frame_counter = MaxCounter

\* the highest of a set of counters that is not empty
Highest(counters) == CHOOSE c \in counters : \A d \in counters : d <= c

\* C14: validation accepts a header with counter c exactly when c > max, or
\* max - c <= tolerance and c was not accepted before; accepting c > max
\* makes max c; max never decreases and is the highest counter accepted so
\* far; no counter is accepted twice.
C14_AcceptIff ==
    [][\A parsed \in {ParsedHeader(last'.frame, last'.skip)} :
          (last'.op = "decrypt" /\ parsed.kind = "Ok")
              => \A c \in {parsed.value.frame_counter} :
                     /\ last'.validated
                            <=> \/ c > validation.max
                                \/ /\ validation.max - c <= validation.tolerance
                                   /\ c \notin accepted
                     /\ last'.validated <=> last'.result # Err(FrameValidationFailed)
                     /\ last'.validated => c \notin accepted
                     /\ (last'.validated /\ c > validation.max) => validation'.max = c
                     /\ validation'.max >= validation.max
                     /\ accepted' # {} => validation'.max = Highest(accepted')]_vars

\* a counter below max, inside the window, was accepted after max
C14_Witness ==
    /\ DecryptedParsed
    /\ last.validated
    /\ LastHeader.frame_counter = MaxCounter - 1
    /\ validation.max = MaxCounter
    /\ accepted = {MaxCounter - 1, MaxCounter}

\* C15: decrypt returns the error of the first step that fails, the steps
\* being parse, validate, key lookup, cipher suite: the parse error when the
\* header does not parse; else the validation's error, as validation returned
\* it, when validation rejects the header; else the missing-key error when
\* the key id is not in the store; and the authentication error or the
\* plaintext only when all three earlier steps passed.
C15_FirstFailure ==
    (last.op = "decrypt" /\ last.skip <= Len(last.frame))
        => \A parsed \in {ParsedHeader(last.frame, last.skip)} :
               IF parsed.kind = "Err" THEN last.result = Err(MalformedHeader)
               ELSE IF ~last.validated THEN last.result = Err(FrameValidationFailed)
               ELSE IF parsed.value.key_id \notin DOMAIN secrets
               THEN /\ last.result.kind = "Err"
                    /\ last.result.error.type = "MissingDecryptionKey"
               ELSE \/ last.result.kind = "Ok"
                    \/ last.result = Err(DecryptionFailure)

\* a frame that fails every step after parsing (its counter replayed, its
\* key id not in the store, its payload tampered with) got the replay error
C15_Witness ==
    /\ last.op = "decrypt"
    /\ [frame |-> last.frame, skip |-> last.skip] \in TamperedInputs
    /\ LastHeader.frame_counter \in accepted
    /\ ~last.validated
    /\ LastHeader.key_id \notin DOMAIN secrets
    /\ last.result = Err(FrameValidationFailed)

\* C16: the replay state after decrypt is decided by the header's counter
\* and the replay state before: a frame that validation accepts and whose
\* decryption then fails, for a missing key or a failed authentication,
\* leaves validation in the state that a successfully decrypted frame with
\* the same header leaves it in; after it the same counter is rejected as a
\* replay, and so is every counter more than tolerance below the new max.
C16_FailedDecryptAdvances ==
    [][(/\ last'.op = "decrypt"
        /\ last'.result.kind = "Err"
        /\ last'.result.error.type \in {"MissingDecryptionKey", "DecryptionFailure"})
          => \A h \in {ParsedHeader(last'.frame, last'.skip).value} :
                 \A good \in {decrypt(SecretsInsert(secrets, h.key_id,
                                                    SecretOf(KeyMaterialA)),
                                      validation,
                                      encrypt(SecretOf(KeyMaterialA), h.key_id,
                                              h.frame_counter,
                                              Plaintext(MaxPlainLen), <<>>),
                                      0)} :
                     /\ good.result.kind = "Ok"
                     /\ validation' = good.validation
                     /\ validation'.max >= h.frame_counter
                     /\ validate(validation', h) = Err(FrameValidationFailed)
                     /\ \A c \in Counters :
                            validation'.max - c > validation'.tolerance
                                => validate(validation', [h EXCEPT !.frame_counter = c])
                                       = Err(FrameValidationFailed)]_vars

\* a frame with the highest counter met no key: it moved the window all
\* the same, and the counter 0 is stale from then on
C16_Witness ==
    /\ DecryptedParsed
    /\ last.result.kind = "Err"
    /\ last.result.error.type = "MissingDecryptionKey"
    /\ LastHeader.frame_counter = MaxCounter
    /\ validation.max = MaxCounter
    /\ accepted = {MaxCounter}
    /\ validation.max - 0 > validation.tolerance

\* C17: the Receiver has one replay window, shared by all key ids: once a
\* frame with counter c under one key id has passed validation, a frame with
\* counter c under another key id is rejected as a replay, and so is a frame
\* under another key id whose counter is more than tolerance below the max
\* the first frame left.
C17_SharedWindow ==
    (DecryptedParsed /\ last.validated)
        => \A h \in {LastHeader} :
               \A kid \in KeyIds \ {h.key_id} :
                   /\ decrypt(secrets, validation,
                              SentWithPrefix[KeyMaterialA, kid, h.frame_counter, 0],
                              0).result = Err(FrameValidationFailed)
                   /\ \A c \in Counters :
                          validation.max - c > validation.tolerance
                              => decrypt(secrets, validation,
                                         SentWithPrefix[KeyMaterialA, kid, c, 0],
                                         0).result = Err(FrameValidationFailed)

\* a frame under the extended key id was decrypted with the highest counter,
\* with the short key id's key in the store: the short key id's frames with
\* that counter and with the counter 0, never seen before, are refused
C17_Witness ==
    /\ DecryptedParsed
    /\ last.result.kind = "Ok"
    /\ LastHeader.key_id = KeyIdExtended
    /\ LastHeader.frame_counter = MaxCounter
    /\ accepted = {MaxCounter}
    /\ validation.max - 0 > validation.tolerance
    /\ Holds(KeyIdShort, KeyMaterialA)
    /\ Outcome(KeyMaterialA, KeyIdShort, MaxCounter, 0).result = Err(FrameValidationFailed)
    /\ Outcome(KeyMaterialA, KeyIdShort, 0, 0).result = Err(FrameValidationFailed)

\* C18: a decrypt call that reaches the cipher suite (header parsed and
\* validated, key id in the store) ends as the cipher suite ends when given
\* the Secret stored under the header's key id, the header's frame counter,
\* the frame's bytes [skip, skip + header size) as associated data and the
\* frame's bytes from skip + header size on as ciphertext and tag: its error,
\* or the skip prefix and the plaintext it leaves in front of the tag.  A
\* sent frame whose header was replaced by another header that parses and
\* names a stored key fails authentication.
C18_CipherSuiteInputs ==
    (DecryptedParsed /\ last.validated /\ LastHeader.key_id \in DOMAIN secrets)
        => \A h \in {LastHeader} :
               \A opened \in {cipher_decrypt(
                                  Slice(last.frame, last.skip + h.size, Len(last.frame)),
                                  secrets[h.key_id],
                                  Slice(last.frame, last.skip, last.skip + h.size),
                                  h.frame_counter)} :
                   /\ opened.kind = "Err" => last.result = opened
                   /\ opened.kind = "Ok"
                          => last.result =
                                 Ok(Slice(last.frame, 0, last.skip)
                                        \o Slice(opened.value, 0,
                                                 Len(opened.value) - AuthTagLen))
                   /\ [frame |-> last.frame, skip |-> last.skip] \in ReheaderedInputs
                          => last.result = Err(DecryptionFailure)

\* a frame sent under one key id, its header replaced by that of the other
\* key id, met the same key stored under both key ids and was refused
C18_Witness ==
    /\ last.op = "decrypt"
    /\ [frame |-> last.frame, skip |-> last.skip] \in ReheaderedInputs
    /\ last.validated
    /\ LastHeader.key_id = KeyIdShort
    /\ LastHeader.frame_counter = 0
    /\ Holds(KeyIdShort, KeyMaterialA)
    /\ Holds(KeyIdExtended, KeyMaterialA)
    /\ last.result = Err(DecryptionFailure)

\* C19: set_encryption_key(id, _) and remove_encryption_key(id) leave every
\* other id as it was: present or absent as before, with the same Secret;
\* what remove_encryption_key returns for another id, and how decrypt ends
\* on a frame for another id, is the same after the call as before it.
C19_OtherIdsUntouched ==
    [][last'.op \in {"set_encryption_key", "remove_encryption_key"}
          => \A id2 \in KeyIds \ {last'.receiver_id} :
                 /\ (id2 \in DOMAIN secrets') = (id2 \in DOMAIN secrets)
                 /\ id2 \in DOMAIN secrets => secrets'[id2] = secrets[id2]
                 /\ remove_encryption_key(secrets', id2).result
                        = remove_encryption_key(secrets, id2).result
                 /\ \A km \in KeyMaterials, c \in Counters :
                        decrypt(secrets', validation,
                                SentWithPrefix[km, id2, c, 0], 0).result
                            = decrypt(secrets, validation,
                                      SentWithPrefix[km, id2, c, 0], 0).result]_vars

\* the extended key id was removed from a store that held both key ids, and
\* the short key id still holds its key
C19_Witness ==
    /\ last.op = "remove_encryption_key"
    /\ last.receiver_id = KeyIdExtended
    /\ last.result = TRUE
    /\ Holds(KeyIdShort, KeyMaterialB)
    /\ Outcome(KeyMaterialB, KeyIdShort, MaxCounter, 0).result.kind = "Ok"

\* C20: a decrypt that fails at header parsing, or whose header validation
\* rejects, leaves the replay state (max and the counters seen) and the key
\* store as they were.
C20_RejectedChangesNothing ==
    [][(/\ last'.op = "decrypt"
        /\ last'.result.kind = "Err"
        /\ last'.result.error.type \in {"MalformedHeader", "FrameValidationFailed"})
          => /\ validation' = validation
             /\ accepted' = accepted
             /\ DOMAIN secrets' = DOMAIN secrets
             /\ \A id \in DOMAIN secrets : secrets'[id] = secrets[id]]_vars

\* a frame with the counter 0, never seen but below the window, was
\* rejected with its key in the store
C20_Witness ==
    /\ DecryptedParsed
    /\ last.result = Err(FrameValidationFailed)
    /\ LastHeader.frame_counter = 0
    /\ LastHeader.key_id \in DOMAIN secrets
    /\ accepted = {MaxCounter}
    /\ validation.max = MaxCounter
    /\ validation.seen = {MaxCounter}

====
